---- MODULE Spec2Model ----
(***************************************************************************)
(* Model of src/main.go: a one-shot run that discovers pods, fetches an    *)
(* EKS token through a mutex-guarded single-slot cache, probes every pod   *)
(* in its own goroutine under a buffered-channel worker pool, sums the     *)
(* per-pod TCP connection counts under a mutex and prints the total after  *)
(* the WaitGroup join.                                                     *)
(*                                                                         *)
(* Spec       the program: main() and the goroutines it starts.            *)
(* CacheSpec  getToken() called by several concurrent callers while the    *)
(*            clock advances (main() itself calls it only once).           *)
(*                                                                         *)
(* Granularity: one action per stretch of code between two blocking        *)
(* points (mutex Lock, channel send/receive, external command, Wait).      *)
(* The clock advances between actions only, and only in CacheSpec: main()  *)
(* reads it in its single getToken() call, on an empty cache, where its    *)
(* value decides nothing.                                                  *)
(***************************************************************************)
EXTENDS Integers, Sequences, FiniteSets, TLC

VARIABLES
    pc,                       \* main(): position
    pods,                     \* main(): pods returned by getPods()
    i,                        \* main(): index of the range loop over pods
    token,                    \* main(): token returned by getToken()
    totalTCPConnections,      \* main(): shared running total
    mu,                       \* main(): sync.Mutex guarding the total (0 = free, k = held by goroutine k)
    wg,                       \* main(): sync.WaitGroup counter
    workers,                  \* main(): number of elements in the buffered channel
    maxConcurrentConnections, \* capacity of the channel `workers`
    wpc,                      \* goroutine k: position
    p,                        \* goroutine k: parameter p
    tcpCount,                 \* goroutine k: local tcpCount
    acc,                      \* goroutine k: value of the total loaded by `+=`
    tokenCache,               \* package variable tokenCache (*TokenResponse)
    cacheMutex,               \* package variable cacheMutex (0 = free, c+1 = held by caller c)
    now,                      \* time.Now().Unix()
    gpc,                      \* getToken() call of caller c: position
    resp,                     \* getToken() call of caller c: err and response.Token after lines 55-63
    ret,                      \* getToken() call of caller c: returned (string, error)
    \* ---- history variables (observations, not program state) ----
    ticks,                    \* number of clock advances so far
    calls,                    \* CacheSpec: number of getToken() calls made so far
    invoked,                  \* per pod name: number of countTCPConnections calls started, and with which token
    outcome,                  \* goroutine k: result of its countTCPConnections call
    printed,                  \* sequence of totals printed by line 194
    fetches,                  \* number of `aws eks get-token` commands started
    storedAt,                 \* clock value when tokenCache was last stored
    entry,                    \* caller c: tokenCache when the call took cacheMutex
    waited,                   \* caller c: a fetch stored a token while c was blocked on cacheMutex
    \* ---- one call of a function on its own (ProbeSpec, PublishSpec) ----
    cmdOut,                   \* countTCPConnections: (out, err) of cmd.Output() at line 111
    probeRet,                 \* countTCPConnections: returned (int, error)
    httpResp,                 \* sendToPushGateway: (resp, err) of http.Post at line 131
    pushRet                   \* sendToPushGateway: posted data and returned error

vars == <<pc, pods, i, token, totalTCPConnections, mu, wg, workers,
          maxConcurrentConnections, wpc, p, tcpCount, acc, tokenCache,
          cacheMutex, now, gpc, resp, ret, ticks, calls, invoked, outcome, printed,
          fetches, storedAt, entry, waited, cmdOut, probeRet, httpResp, pushRet>>

mainVars  == <<pc, pods, i, token, totalTCPConnections, mu, wg, workers,
               maxConcurrentConnections, wpc, p, tcpCount, acc, invoked,
               outcome, printed>>
cacheVars == <<tokenCache, cacheMutex, now, gpc, resp, ret, ticks, calls, fetches,
               storedAt, entry, waited>>
unitVars  == <<cmdOut, probeRet, httpResp, pushRet>>

----------------------------------------------------------------------------
(* Bounds *)

MaxPods    == 3      \* largest number of pods discovery returns
MaxCeiling == 2      \* largest channel capacity explored
NCallers   == 2      \* CacheSpec: concurrent callers of getToken()
MaxCalls   == 3      \* CacheSpec: getToken() calls per behaviour
MaxTicks   == 2      \* clock advances per behaviour
MaxLen     == 3      \* ProbeSpec: longest stdout of the probe command

----------------------------------------------------------------------------
(* Constants of the program *)

cacheTTL == 300      \* int64(cacheTTL.Seconds()) for cacheTTL = 5 * time.Minute

\* Amounts by which the clock advances between two actions: a short delay,
\* exactly a TTL, and more than a TTL.
TickSteps == {10, cacheTTL, cacheTTL + 1}

\* Rows `kubectl get pods` can print (first field of each line).
ClientPods == <<"client-a", "client-b", "client-c", "client-d">>
OtherRows  == <<"NAME", "server-x">>
PodNames   == {ClientPods[n] : n \in 1..Len(ClientPods)}

\* podRegex = `\bclient\b`, on the names above
podRegexMatch(name) == name \in PodNames

Tokens == {"abc", "def"}

Main    == 0
Callers == 0..NCallers

----------------------------------------------------------------------------
(* Text helpers: a string is a sequence of one-character strings *)

Digits == <<"0", "1", "2", "3", "4", "5", "6", "7", "8", "9">>
IsDigit(ch) == \E d \in 1..10 : Digits[d] = ch
DigitVal(ch) == (CHOOSE d \in 1..10 : Digits[d] = ch) - 1
IsSpace(ch) == ch \in {" ", "\n", "\t", "\r"}

RECURSIVE TrimLeft(_)
TrimLeft(s) == IF s # <<>> /\ IsSpace(Head(s)) THEN TrimLeft(Tail(s)) ELSE s

RECURSIVE TrimRight(_)
TrimRight(s) ==
    IF s # <<>> /\ IsSpace(s[Len(s)]) THEN TrimRight(SubSeq(s, 1, Len(s) - 1)) ELSE s

\* strings.TrimSpace
TrimSpace(s) == TrimRight(TrimLeft(s))

RECURSIVE ParseDigits(_, _)
ParseDigits(s, n) ==
    IF s = <<>> THEN n ELSE ParseDigits(Tail(s), 10 * n + DigitVal(Head(s)))

\* strconv.Atoi: optional sign, then one or more decimal digits
Atoi(s) ==
    LET signed == s # <<>> /\ Head(s) \in {"+", "-"}
        body   == IF signed THEN Tail(s) ELSE s
    IN  IF body = <<>> \/ \E n \in 1..Len(body) : ~IsDigit(body[n])
        THEN [val |-> 0, err |-> TRUE]
        ELSE [val |-> IF signed /\ Head(s) = "-" THEN 0 - ParseDigits(body, 0)
                      ELSE ParseDigits(body, 0),
              err |-> FALSE]

----------------------------------------------------------------------------
(* External collaborators: what they can answer *)

\* stdout of `kubectl get pods`: a header, a pod that is not a client, then n client pods
Line(name) == <<name, "1/1", "Running">>
KubectlOutput(n) ==
    <<Line(OtherRows[1]), Line(OtherRows[2]), <<>>>> \o [m \in 1..n |-> Line(ClientPods[m])]
KubectlOutputs == {<<>>} \cup {KubectlOutput(n) : n \in 0..MaxPods}

\* stdout of `aws eks get-token`, decoded: err = "exec" (command failed),
\* "json" (Unmarshal failed) or "nil" with the token and the issuer's own expiry
IssuerExpiries == {0, 3 * cacheTTL}
IssuerResponses ==
    {[err |-> e, Token |-> "", Expiry |-> 0] : e \in {"exec", "json"}}
    \cup {[err |-> "nil", Token |-> t, Expiry |-> e] : t \in Tokens, e \in IssuerExpiries}

\* result of the `kubectl exec` command of one probe: exit error or stdout
Stdouts == { <<"5", "\n">>, <<" ", "7", "\n">>, <<"-", "3", "\n">>,
             <<"1", " ", "2">>, <<>> }
ProbeOutputs ==
    {[err |-> TRUE, out |-> <<>>]} \cup {[err |-> FALSE, out |-> o] : o \in Stdouts}

----------------------------------------------------------------------------
(* Values *)

\* *TokenResponse: nil or a pointer to {Token, Expiry}
Nil == [nil |-> TRUE, Token |-> "", Expiry |-> 0]
NoReturn == [token |-> "", err |-> "none"]
NoResponse == [err |-> "none", Token |-> ""]
NoOutcome == [state |-> "none", count |-> 0]
NoCommand == [err |-> FALSE, out |-> <<>>]
NoProbeReturn == [done |-> FALSE, count |-> 0, err |-> FALSE]
NoAnswer == [err |-> FALSE, status |-> 0, body |-> ""]
NoPushReturn == [done |-> FALSE, data |-> <<>>, err |-> "none", msg |-> ""]

\* a cached token reused without looking at its expiry
CacheValid_IgnoresExpiry(cache, t) == ~cache.nil

\* the condition of line 47
CacheValid(cache, t) == ~cache.nil /\ t < cache.Expiry

\* the entry given the expiry reported by the issuer
NewEntry_IssuerExpiry(response, t) ==
    [nil |-> FALSE, Token |-> response.Token, Expiry |-> response.Expiry]

\* the entry built at lines 66-69
NewEntry(response, t) ==
    [nil |-> FALSE, Token |-> response.Token, Expiry |-> t + cacheTTL]

\* lines 84-92 of getPods: keep the first field of the lines that have one matching podRegex
RECURSIVE ScanPods(_)
ScanPods(lines) ==
    IF lines = <<>> THEN <<>>
    ELSE LET fields == Head(lines)
         IN  IF Len(fields) > 0 /\ podRegexMatch(fields[1])
             THEN <<fields[1]>> \o ScanPods(Tail(lines))
             ELSE ScanPods(Tail(lines))

\* countTCPConnections, lines 111-123, on the result of the command
countTCPConnections(res) ==
    IF res.err THEN [count |-> 0, err |-> TRUE]
    ELSE LET a == Atoi(TrimSpace(res.out))
         IN  IF a.err THEN [count |-> 0, err |-> TRUE]
             ELSE [count |-> a.val, err |-> FALSE]

----------------------------------------------------------------------------
(* Initial states *)

CacheInit0 ==
    /\ tokenCache = Nil
    /\ cacheMutex = 0
    /\ now = 0
    /\ gpc = [c \in Callers |-> "idle"]
    /\ resp = [c \in Callers |-> NoResponse]
    /\ ret = [c \in Callers |-> NoReturn]
    /\ ticks = 0
    /\ calls = 0
    /\ fetches = 0
    /\ storedAt = 0
    /\ entry = [c \in Callers |-> Nil]
    /\ waited = [c \in Callers |-> FALSE]

UnitInit0 ==
    /\ cmdOut = NoCommand
    /\ probeRet = NoProbeReturn
    /\ httpResp = NoAnswer
    /\ pushRet = NoPushReturn

PoolInit0 ==
    /\ pods = <<>>
    /\ i = 1
    /\ token = ""
    /\ totalTCPConnections = 0
    /\ mu = 0
    /\ wg = 0
    /\ workers = 0
    /\ wpc = [k \in 1..MaxPods |-> "none"]
    /\ p = [k \in 1..MaxPods |-> ""]
    /\ tcpCount = [k \in 1..MaxPods |-> 0]
    /\ acc = [k \in 1..MaxPods |-> 0]
    /\ invoked = [n \in PodNames |-> <<>>]
    /\ outcome = [k \in 1..MaxPods |-> NoOutcome]
    /\ printed = <<>>

\* main() is about to call getPods(); the channel capacity (100 at line 24)
\* is any C >= 1, so that pods can outnumber the slots
Init ==
    /\ pc = "getPods"
    /\ maxConcurrentConnections \in 1..MaxCeiling
    /\ PoolInit0
    /\ CacheInit0
    /\ UnitInit0

\* getToken() alone: main() is not running
CacheInit ==
    /\ pc = "off"
    /\ maxConcurrentConnections = 1
    /\ PoolInit0
    /\ CacheInit0
    /\ UnitInit0

----------------------------------------------------------------------------
(* getToken(), lines 42-73, called by caller c *)

\* getToken() entered without waiting for cacheMutex
getTokenLock_NoExclusion(c) ==
    /\ gpc[c] = "lock"
    /\ cacheMutex' = c + 1
    /\ gpc' = [gpc EXCEPT ![c] = "check"]
    /\ entry' = [entry EXCEPT ![c] = tokenCache]
    /\ UNCHANGED <<tokenCache, now, resp, ret, ticks, calls, fetches, storedAt, waited>>
    /\ UNCHANGED mainVars
    /\ UNCHANGED unitVars

\* line 43: cacheMutex.Lock()
getTokenLock(c) ==
    /\ gpc[c] = "lock"
    /\ cacheMutex = 0
    /\ cacheMutex' = c + 1
    /\ gpc' = [gpc EXCEPT ![c] = "check"]
    /\ entry' = [entry EXCEPT ![c] = tokenCache]
    /\ UNCHANGED <<tokenCache, now, resp, ret, ticks, calls, fetches, storedAt, waited>>
    /\ UNCHANGED mainVars
    /\ UNCHANGED unitVars

\* lines 47-54: return the cached token (deferred Unlock), or start the command
getTokenCheck(c) ==
    /\ gpc[c] = "check"
    /\ IF CacheValid(tokenCache, now)
       THEN /\ ret' = [ret EXCEPT ![c] = [token |-> tokenCache.Token, err |-> "nil"]]
            /\ cacheMutex' = 0
            /\ gpc' = [gpc EXCEPT ![c] = "ret"]
            /\ UNCHANGED fetches
       ELSE /\ gpc' = [gpc EXCEPT ![c] = "fetch"]
            /\ fetches' = fetches + 1
            /\ UNCHANGED <<ret, cacheMutex>>
    /\ UNCHANGED <<tokenCache, now, resp, ticks, calls, storedAt, entry, waited>>
    /\ UNCHANGED mainVars
    /\ UNCHANGED unitVars

\* a failed fetch that drops the cached entry
getTokenFetch_DropsEntryOnError(c) ==
    /\ gpc[c] = "fetch"
    /\ \E response \in IssuerResponses :
          /\ IF response.err # "nil"
             THEN /\ ret' = [ret EXCEPT ![c] = [token |-> "", err |-> response.err]]
                  /\ tokenCache' = Nil
                  /\ UNCHANGED <<storedAt, waited>>
             ELSE /\ tokenCache' = NewEntry(response, now)
                  /\ ret' = [ret EXCEPT ![c] = [token |-> tokenCache'.Token, err |-> "nil"]]
                  /\ storedAt' = now
                  /\ waited' = [d \in Callers |-> waited[d] \/ gpc[d] = "lock"]
          /\ resp' = [resp EXCEPT ![c] = [err |-> response.err, Token |-> response.Token]]
    /\ cacheMutex' = 0
    /\ gpc' = [gpc EXCEPT ![c] = "ret"]
    /\ UNCHANGED <<now, ticks, calls, fetches, entry>>
    /\ UNCHANGED mainVars
    /\ UNCHANGED unitVars

\* lines 55-72: the command returns; decode, store, return (deferred Unlock)
getTokenFetch(c) ==
    /\ gpc[c] = "fetch"
    /\ \E response \in IssuerResponses :
          /\ IF response.err # "nil"
             THEN /\ ret' = [ret EXCEPT ![c] = [token |-> "", err |-> response.err]]
                  /\ UNCHANGED <<tokenCache, storedAt, waited>>
             ELSE /\ tokenCache' = NewEntry(response, now)
                  /\ ret' = [ret EXCEPT ![c] = [token |-> tokenCache'.Token, err |-> "nil"]]
                  /\ storedAt' = now
                  /\ waited' = [d \in Callers |-> waited[d] \/ gpc[d] = "lock"]
          /\ resp' = [resp EXCEPT ![c] = [err |-> response.err, Token |-> response.Token]]
    /\ cacheMutex' = 0
    /\ gpc' = [gpc EXCEPT ![c] = "ret"]
    /\ UNCHANGED <<now, ticks, calls, fetches, entry>>
    /\ UNCHANGED mainVars
    /\ UNCHANGED unitVars

\* the clock advances
Tick ==
    /\ ticks < MaxTicks
    /\ \E d \in TickSteps : now' = now + d
    /\ ticks' = ticks + 1
    /\ UNCHANGED <<tokenCache, cacheMutex, gpc, resp, ret, calls, fetches, storedAt, entry, waited>>
    /\ UNCHANGED mainVars
    /\ UNCHANGED unitVars

\* CacheSpec: a caller other than main() calls getToken()
Call(c) ==
    /\ c # Main
    /\ gpc[c] \in {"idle", "ret"}
    /\ calls < MaxCalls
    /\ calls' = calls + 1
    /\ gpc' = [gpc EXCEPT ![c] = "lock"]
    /\ ret' = [ret EXCEPT ![c] = NoReturn]
    /\ resp' = [resp EXCEPT ![c] = NoResponse]
    /\ waited' = [waited EXCEPT ![c] = FALSE]
    /\ UNCHANGED <<tokenCache, cacheMutex, now, ticks, fetches, storedAt, entry>>
    /\ UNCHANGED mainVars
    /\ UNCHANGED unitVars

CacheNext ==
    \/ \E c \in Callers : Call(c)
    \/ \E c \in Callers : getTokenLock(c)
    \/ \E c \in Callers : getTokenCheck(c)
    \/ \E c \in Callers : getTokenFetch(c)
    \/ Tick

CacheSpec == CacheInit /\ [][CacheNext]_vars

----------------------------------------------------------------------------
(* main(), lines 147-202 *)

\* the loop entered right after discovery, without the getToken() call
getPods_SkipsToken ==
    /\ pc = "getPods"
    /\ \E res \in [err : {TRUE}, out : {<<>>}] \cup [err : {FALSE}, out : KubectlOutputs] :
          IF res.err
          THEN /\ pc' = "exit"
               /\ UNCHANGED pods
          ELSE /\ pods' = ScanPods(res.out)
               /\ pc' = "loop"
    /\ UNCHANGED <<i, token, totalTCPConnections, mu, wg, workers,
                   maxConcurrentConnections, wpc, p, tcpCount, acc, invoked,
                   outcome, printed>>
    /\ UNCHANGED cacheVars
    /\ UNCHANGED unitVars

\* lines 151-163: getPods() returns; on success declare the locals and call getToken()
getPods ==
    /\ pc = "getPods"
    /\ \E res \in [err : {TRUE}, out : {<<>>}] \cup [err : {FALSE}, out : KubectlOutputs] :
          IF res.err
          THEN /\ pc' = "exit"
               /\ UNCHANGED <<pods, gpc>>
          ELSE /\ pods' = ScanPods(res.out)
               /\ pc' = "getToken"
               /\ gpc' = [gpc EXCEPT ![Main] = "lock"]
    /\ UNCHANGED <<i, token, totalTCPConnections, mu, wg, workers,
                   maxConcurrentConnections, wpc, p, tcpCount, acc, invoked,
                   outcome, printed>>
    /\ UNCHANGED <<tokenCache, cacheMutex, now, resp, ret, ticks, calls, fetches,
                   storedAt, entry, waited>>
    /\ UNCHANGED unitVars

\* the error of getToken() ignored
gotToken_IgnoresError ==
    /\ pc = "getToken"
    /\ gpc[Main] = "ret"
    /\ token' = ret[Main].token
    /\ pc' = "loop"
    /\ UNCHANGED <<pods, i, totalTCPConnections, mu, wg, workers,
                   maxConcurrentConnections, wpc, p, tcpCount, acc, invoked,
                   outcome, printed>>
    /\ UNCHANGED cacheVars
    /\ UNCHANGED unitVars

\* the returned token assigned to a shadowed variable: the goroutines see ""
gotToken_ShadowedToken ==
    /\ pc = "getToken"
    /\ gpc[Main] = "ret"
    /\ IF ret[Main].err # "nil"
       THEN pc' = "exit"
       ELSE pc' = "loop"
    /\ UNCHANGED <<pods, i, token, totalTCPConnections, mu, wg, workers,
                   maxConcurrentConnections, wpc, p, tcpCount, acc, invoked,
                   outcome, printed>>
    /\ UNCHANGED cacheVars
    /\ UNCHANGED unitVars

\* lines 163-167: getToken() has returned to main()
gotToken ==
    /\ pc = "getToken"
    /\ gpc[Main] = "ret"
    /\ IF ret[Main].err # "nil"
       THEN /\ pc' = "exit"
            /\ UNCHANGED token
       ELSE /\ token' = ret[Main].token
            /\ pc' = "loop"
    /\ UNCHANGED <<pods, i, totalTCPConnections, mu, wg, workers,
                   maxConcurrentConnections, wpc, p, tcpCount, acc, invoked,
                   outcome, printed>>
    /\ UNCHANGED cacheVars
    /\ UNCHANGED unitVars

\* lines 169-170: next pod of the range loop and wg.Add(1), or leave the loop
loopNext ==
    /\ pc = "loop"
    /\ IF i <= Len(pods)
       THEN /\ wg' = wg + 1
            /\ pc' = "send"
       ELSE /\ pc' = "wait"
            /\ UNCHANGED wg
    /\ UNCHANGED <<pods, i, token, totalTCPConnections, mu, workers,
                   maxConcurrentConnections, wpc, p, tcpCount, acc, invoked,
                   outcome, printed>>
    /\ UNCHANGED cacheVars
    /\ UNCHANGED unitVars

\* dispatch with an unbuffered admission: the send never blocks
dispatch_NoBlock ==
    /\ pc = "send"
    /\ workers' = workers + 1
    /\ wpc' = [wpc EXCEPT ![i] = "start"]
    /\ p' = [p EXCEPT ![i] = pods[i]]
    /\ i' = i + 1
    /\ pc' = "loop"
    /\ UNCHANGED <<pods, token, totalTCPConnections, mu, wg,
                   maxConcurrentConnections, tcpCount, acc, invoked, outcome, printed>>
    /\ UNCHANGED cacheVars
    /\ UNCHANGED unitVars

\* lines 173-175, 188: workers <- struct{}{} (blocks while the channel is full), then go func(pod)
dispatch ==
    /\ pc = "send"
    /\ workers < maxConcurrentConnections
    /\ workers' = workers + 1
    /\ wpc' = [wpc EXCEPT ![i] = "start"]
    /\ p' = [p EXCEPT ![i] = pods[i]]
    /\ i' = i + 1
    /\ pc' = "loop"
    /\ UNCHANGED <<pods, token, totalTCPConnections, mu, wg,
                   maxConcurrentConnections, tcpCount, acc, invoked, outcome, printed>>
    /\ UNCHANGED cacheVars
    /\ UNCHANGED unitVars

\* the total printed without joining the goroutines
waitAndPrint_NoJoin ==
    /\ pc = "wait"
    /\ printed' = Append(printed, totalTCPConnections)
    /\ pc' = "exit"
    /\ UNCHANGED <<pods, i, token, totalTCPConnections, mu, wg, workers,
                   maxConcurrentConnections, wpc, p, tcpCount, acc, invoked, outcome>>
    /\ UNCHANGED cacheVars
    /\ UNCHANGED unitVars

\* lines 192-195: wg.Wait() returns when the counter is zero; print the total
waitAndPrint ==
    /\ pc = "wait"
    /\ wg = 0
    /\ printed' = Append(printed, totalTCPConnections)
    /\ pc' = "exit"
    /\ UNCHANGED <<pods, i, token, totalTCPConnections, mu, wg, workers,
                   maxConcurrentConnections, wpc, p, tcpCount, acc, invoked, outcome>>
    /\ UNCHANGED cacheVars
    /\ UNCHANGED unitVars

----------------------------------------------------------------------------
(* the goroutine of lines 175-188, started for the k-th pod *)

\* the goroutine reads the loop variable of main() instead of its parameter
probeStart_SharedLoopVar(k) ==
    /\ wpc[k] = "start"
    /\ invoked' = [invoked EXCEPT ![pods[IF i <= Len(pods) THEN i ELSE Len(pods)]] = Append(@, token)]
    /\ wpc' = [wpc EXCEPT ![k] = "exec"]
    /\ UNCHANGED <<pc, pods, i, token, totalTCPConnections, mu, wg, workers,
                   maxConcurrentConnections, p, tcpCount, acc, outcome, printed>>
    /\ UNCHANGED cacheVars
    /\ UNCHANGED unitVars

\* line 179 and lines 99-111: call countTCPConnections(p, token), start the command
probeStart(k) ==
    /\ wpc[k] = "start"
    /\ invoked' = [invoked EXCEPT ![p[k]] = Append(@, token)]
    /\ wpc' = [wpc EXCEPT ![k] = "exec"]
    /\ UNCHANGED <<pc, pods, i, token, totalTCPConnections, mu, wg, workers,
                   maxConcurrentConnections, p, tcpCount, acc, outcome, printed>>
    /\ UNCHANGED cacheVars
    /\ UNCHANGED unitVars

\* the slot released on the success path only (no defer)
probeReturn_NoDefer(k) ==
    /\ wpc[k] = "exec"
    /\ \E res \in ProbeOutputs :
          LET r == countTCPConnections(res)
          IN  IF r.err
              THEN /\ wpc' = [wpc EXCEPT ![k] = "done"]
                   /\ outcome' = [outcome EXCEPT ![k] = [state |-> "failed", count |-> 0]]
                   /\ UNCHANGED tcpCount
              ELSE /\ wpc' = [wpc EXCEPT ![k] = "lock"]
                   /\ tcpCount' = [tcpCount EXCEPT ![k] = r.count]
                   /\ outcome' = [outcome EXCEPT ![k] = [state |-> "ok", count |-> r.count]]
    /\ UNCHANGED <<pc, pods, i, token, totalTCPConnections, mu, wg, workers,
                   maxConcurrentConnections, p, acc, invoked, printed>>
    /\ UNCHANGED cacheVars
    /\ UNCHANGED unitVars

\* a probe error that ends the program (as log.Fatal would)
probeReturn_FatalOnError(k) ==
    /\ wpc[k] = "exec"
    /\ \E res \in ProbeOutputs :
          LET r == countTCPConnections(res)
          IN  IF r.err
              THEN /\ wpc' = [wpc EXCEPT ![k] = "release"]
                   /\ outcome' = [outcome EXCEPT ![k] = [state |-> "failed", count |-> 0]]
                   /\ pc' = "exit"
                   /\ UNCHANGED tcpCount
              ELSE /\ wpc' = [wpc EXCEPT ![k] = "lock"]
                   /\ tcpCount' = [tcpCount EXCEPT ![k] = r.count]
                   /\ outcome' = [outcome EXCEPT ![k] = [state |-> "ok", count |-> r.count]]
                   /\ UNCHANGED pc
    /\ UNCHANGED <<pods, i, token, totalTCPConnections, mu, wg, workers,
                   maxConcurrentConnections, p, acc, invoked, printed>>
    /\ UNCHANGED cacheVars
    /\ UNCHANGED unitVars

\* lines 111-123 and 179-183: the command returns; on error log and return
probeReturn(k) ==
    /\ wpc[k] = "exec"
    /\ \E res \in ProbeOutputs :
          LET r == countTCPConnections(res)
          IN  IF r.err
              THEN /\ wpc' = [wpc EXCEPT ![k] = "release"]
                   /\ outcome' = [outcome EXCEPT ![k] = [state |-> "failed", count |-> 0]]
                   /\ UNCHANGED tcpCount
              ELSE /\ wpc' = [wpc EXCEPT ![k] = "lock"]
                   /\ tcpCount' = [tcpCount EXCEPT ![k] = r.count]
                   /\ outcome' = [outcome EXCEPT ![k] = [state |-> "ok", count |-> r.count]]
    /\ UNCHANGED <<pc, pods, i, token, totalTCPConnections, mu, wg, workers,
                   maxConcurrentConnections, p, acc, invoked, printed>>
    /\ UNCHANGED cacheVars
    /\ UNCHANGED unitVars

\* the total updated without waiting for the mutex
muLock_NoExclusion(k) ==
    /\ wpc[k] = "lock"
    /\ mu' = k
    /\ wpc' = [wpc EXCEPT ![k] = "load"]
    /\ UNCHANGED <<pc, pods, i, token, totalTCPConnections, wg, workers,
                   maxConcurrentConnections, p, tcpCount, acc, invoked, outcome, printed>>
    /\ UNCHANGED cacheVars
    /\ UNCHANGED unitVars

\* line 185: mu.Lock()
muLock(k) ==
    /\ wpc[k] = "lock"
    /\ mu = 0
    /\ mu' = k
    /\ wpc' = [wpc EXCEPT ![k] = "load"]
    /\ UNCHANGED <<pc, pods, i, token, totalTCPConnections, wg, workers,
                   maxConcurrentConnections, p, tcpCount, acc, invoked, outcome, printed>>
    /\ UNCHANGED cacheVars
    /\ UNCHANGED unitVars

\* the mutex released between the read and the write of the total
addLoad_UnlocksEarly(k) ==
    /\ wpc[k] = "load"
    /\ acc' = [acc EXCEPT ![k] = totalTCPConnections]
    /\ mu' = 0
    /\ wpc' = [wpc EXCEPT ![k] = "store"]
    /\ UNCHANGED <<pc, pods, i, token, totalTCPConnections, wg, workers,
                   maxConcurrentConnections, p, tcpCount, invoked, outcome, printed>>
    /\ UNCHANGED cacheVars
    /\ UNCHANGED unitVars

\* line 186, first half: read totalTCPConnections
addLoad(k) ==
    /\ wpc[k] = "load"
    /\ acc' = [acc EXCEPT ![k] = totalTCPConnections]
    /\ wpc' = [wpc EXCEPT ![k] = "store"]
    /\ UNCHANGED <<pc, pods, i, token, totalTCPConnections, mu, wg, workers,
                   maxConcurrentConnections, p, tcpCount, invoked, outcome, printed>>
    /\ UNCHANGED cacheVars
    /\ UNCHANGED unitVars

\* the sum written back without mu.Unlock()
addStore_KeepsLock(k) ==
    /\ wpc[k] = "store"
    /\ totalTCPConnections' = acc[k] + tcpCount[k]
    /\ wpc' = [wpc EXCEPT ![k] = "release"]
    /\ UNCHANGED <<pc, pods, i, token, mu, wg, workers,
                   maxConcurrentConnections, p, tcpCount, acc, invoked, outcome, printed>>
    /\ UNCHANGED cacheVars
    /\ UNCHANGED unitVars

\* line 186, second half, and line 187: write the sum back, mu.Unlock()
addStore(k) ==
    /\ wpc[k] = "store"
    /\ totalTCPConnections' = acc[k] + tcpCount[k]
    /\ mu' = 0
    /\ wpc' = [wpc EXCEPT ![k] = "release"]
    /\ UNCHANGED <<pc, pods, i, token, wg, workers,
                   maxConcurrentConnections, p, tcpCount, acc, invoked, outcome, printed>>
    /\ UNCHANGED cacheVars
    /\ UNCHANGED unitVars

\* wg.Done() reached on the success path only (no defer)
release_DoneOnSuccessOnly(k) ==
    /\ wpc[k] = "release"
    /\ workers > 0
    /\ workers' = workers - 1
    /\ wpc' = [wpc EXCEPT ![k] = IF outcome[k].state = "failed" THEN "exited" ELSE "done"]
    /\ UNCHANGED <<pc, pods, i, token, totalTCPConnections, mu, wg,
                   maxConcurrentConnections, p, tcpCount, acc, invoked, outcome, printed>>
    /\ UNCHANGED cacheVars
    /\ UNCHANGED unitVars

\* line 177, deferred: <-workers
release(k) ==
    /\ wpc[k] = "release"
    /\ workers > 0
    /\ workers' = workers - 1
    /\ wpc' = [wpc EXCEPT ![k] = "done"]
    /\ UNCHANGED <<pc, pods, i, token, totalTCPConnections, mu, wg,
                   maxConcurrentConnections, p, tcpCount, acc, invoked, outcome, printed>>
    /\ UNCHANGED cacheVars
    /\ UNCHANGED unitVars

\* line 176, deferred: wg.Done()
wgDone(k) ==
    /\ wpc[k] = "done"
    /\ wg' = wg - 1
    /\ wpc' = [wpc EXCEPT ![k] = "exited"]
    /\ UNCHANGED <<pc, pods, i, token, totalTCPConnections, mu, workers,
                   maxConcurrentConnections, p, tcpCount, acc, invoked, outcome, printed>>
    /\ UNCHANGED cacheVars
    /\ UNCHANGED unitVars

Next ==
    \/ getPods
    \/ getTokenLock(Main)
    \/ getTokenCheck(Main)
    \/ getTokenFetch(Main)
    \/ gotToken
    \/ loopNext
    \/ dispatch
    \/ waitAndPrint
    \/ \E k \in 1..MaxPods : probeStart(k)
    \/ \E k \in 1..MaxPods : probeReturn(k)
    \/ \E k \in 1..MaxPods : muLock(k)
    \/ \E k \in 1..MaxPods : addLoad(k)
    \/ \E k \in 1..MaxPods : addStore(k)
    \/ \E k \in 1..MaxPods : release(k)
    \/ \E k \in 1..MaxPods : wgDone(k)

Spec == Init /\ [][Next]_vars

\* the steps of main() and the steps of the goroutine started for the k-th pod
MainStep ==
    \/ getPods
    \/ getTokenLock(Main)
    \/ getTokenCheck(Main)
    \/ getTokenFetch(Main)
    \/ gotToken
    \/ loopNext
    \/ dispatch
    \/ waitAndPrint
WorkerStep(k) ==
    \/ probeStart(k)
    \/ probeReturn(k)
    \/ muLock(k)
    \/ addLoad(k)
    \/ addStore(k)
    \/ release(k)
    \/ wgDone(k)

\* the Go scheduler runs every goroutine that can run, and every command
\* that was started returns
FairSpec ==
    /\ Init
    /\ [][Next]_vars
    /\ WF_vars(MainStep)
    /\ \A k \in 1..MaxPods : WF_vars(WorkerStep(k))

----------------------------------------------------------------------------
(* Observations used by the properties *)

\* goroutines that hold an admission slot: started and not yet past <-workers
InFlight ==
    {k \in 1..MaxPods : wpc[k] \in {"start", "exec", "lock", "load", "store", "release"}}

\* sum of the counts of the probes that returned without error
RECURSIVE SumOk(_)
SumOk(n) ==
    IF n = 0 THEN 0
    ELSE SumOk(n - 1) + (IF outcome[n].state = "ok" THEN outcome[n].count ELSE 0)

\* number of times name occurs in the sequence of discovered pods
Occurrences(name) == Cardinality({n \in 1..Len(pods) : pods[n] = name})

\* getPods() has returned without error
Discovered == pc # "getPods" /\ gpc[Main] # "idle"

\* getToken() has returned a token to main()
Acquired == gpc[Main] = "ret" /\ ret[Main].err = "nil" /\ pc \notin {"getPods", "getToken"}

\* main() has printed the total
Reported == printed # <<>>

----------------------------------------------------------------------------
(* Properties of the fan-out (Spec) *)

\* C1: at most maxConcurrentConnections goroutines hold a slot at any time,
\* and while that many hold one the channel send of main() is blocked.
C1_AdmissionBound ==
    /\ Cardinality(InFlight) <= maxConcurrentConnections
    /\ workers <= maxConcurrentConnections
    /\ (pc = "send" /\ Cardinality(InFlight) = maxConcurrentConnections) => ~ENABLED dispatch

C1_Witness ==
    /\ pc = "send"
    /\ Cardinality(InFlight) = maxConcurrentConnections
    /\ maxConcurrentConnections >= 2

\* C2: the printed total is the sum of the counts of exactly the probes that
\* succeeded, whatever the order of dispatch and completion.
C2_TotalIsSumOfSuccesses ==
    Reported => /\ Len(printed) = 1
                /\ printed[1] = SumOk(Len(pods))

\* three pods, counts 5 and 7 and one failure, total 12
C2_Witness ==
    /\ Reported
    /\ Len(pods) = 3
    /\ \E a, b, c \in 1..3 :
          /\ {a, b, c} = 1..3
          /\ outcome[a] = [state |-> "ok", count |-> 5]
          /\ outcome[b] = [state |-> "failed", count |-> 0]
          /\ outcome[c] = [state |-> "ok", count |-> 7]
    /\ printed = <<12>>

\* C3: the total is printed only when every started goroutine has finished
\* (returned from its probe, finished its update of the total and exited).
C3_ReportAfterJoin ==
    Reported => /\ \A k \in 1..MaxPods : wpc[k] \in {"none", "exited"}
                /\ \A k \in 1..Len(pods) : wpc[k] = "exited" /\ outcome[k].state # "none"
                /\ mu = 0

C3_Witness ==
    /\ Reported
    /\ Len(pods) >= 2
    /\ \E k \in 1..Len(pods) : outcome[k].state = "ok" /\ outcome[k].count > 0
    /\ \E k \in 1..Len(pods) : outcome[k].state = "failed"

\* C4: never more probes than one per discovered pod, none for a name that
\* was not discovered, and exactly one per discovered pod once the join returned.
C4_OneProbePerTarget ==
    /\ \A name \in PodNames : Len(invoked[name]) <= Occurrences(name)
    /\ (pc = "exit" /\ Acquired) => \A name \in PodNames : Len(invoked[name]) = Occurrences(name)

C4_Witness ==
    /\ pc = "exit"
    /\ Acquired
    /\ Len(pods) >= 2
    /\ \E name \in PodNames : Occurrences(name) = 0

\* C5: the number of occupied slots is the number of goroutines that were
\* admitted and have not yet executed <-workers, on the success and on the
\* failure path; none is occupied once the join returned.
C5_SlotsReleased ==
    /\ workers = Cardinality(InFlight)
    /\ (pc = "exit" /\ Acquired) => workers = 0

C5_Witness ==
    /\ pc = "exit"
    /\ Acquired
    /\ \E k \in 1..Len(pods) : outcome[k].state = "failed"
    /\ \E k \in 1..Len(pods) : outcome[k].state = "ok"

----------------------------------------------------------------------------
(* Properties of the token cache (CacheSpec) *)

\* caller c returns from getToken() in this step
Returns(c) == gpc[c] # "ret" /\ gpc'[c] = "ret"

\* callers whose `aws eks get-token` command is running
Fetching == {c \in Callers : gpc[c] = "fetch"}

\* C6: a successful return hands out the token of a cache entry that is not
\* expired at that moment; a call that finds the cache empty or expired
\* starts a fetch, and returns only after the fetched entry replaced the old one.
C6_NeverReturnsExpired ==
    [][\A c \in Callers :
          /\ (Returns(c) /\ ret'[c].err = "nil")
                => /\ ~tokenCache'.nil
                   /\ ret'[c].token = tokenCache'.Token
                   /\ now' < tokenCache'.Expiry
          /\ (gpc[c] = "check" /\ gpc'[c] # "check" /\ (tokenCache.nil \/ now >= tokenCache.Expiry))
                => /\ gpc'[c] = "fetch"
                   /\ fetches' = fetches + 1
          /\ (gpc[c] = "fetch" /\ Returns(c) /\ ret'[c].err = "nil")
                => /\ tokenCache' # tokenCache
                   /\ tokenCache'.Token = resp'[c].Token
                   /\ storedAt' = now
      ]_vars

\* a caller found an expired entry and returned the token of the entry that replaced it
C6_Witness ==
    \E c \in Callers :
        /\ gpc[c] = "ret"
        /\ ret[c].err = "nil"
        /\ ~entry[c].nil
        /\ entry[c].Expiry <= storedAt
        /\ tokenCache # entry[c]
        /\ ret[c].token = tokenCache.Token
        /\ now < tokenCache.Expiry

\* a call that checks the cache less than cacheTTL after the last store
\* returns the stored token and starts no command
C7_WithinTTL(c) ==
    (gpc[c] = "check" /\ gpc'[c] # "check" /\ ~tokenCache.nil /\ now - storedAt < cacheTTL)
        => /\ Returns(c)
           /\ ret'[c] = [token |-> tokenCache.Token, err |-> "nil"]
           /\ fetches' = fetches
           /\ tokenCache' = tokenCache

\* C7 as stated: within the TTL the cached token is returned without a fetch,
\* at most one fetch is in progress, and a caller that was blocked while
\* another caller's fetch stored a token never fetches itself.
C7_Original ==
    [][/\ \A c \in Callers : C7_WithinTTL(c)
       /\ Cardinality(Fetching) <= 1
       /\ \A c \in Callers :
             (gpc[c] = "check" /\ gpc'[c] # "check" /\ waited[c])
                => /\ Returns(c)
                   /\ fetches' = fetches
      ]_vars

\* C7, amended: within the TTL the cached token is returned without a fetch,
\* at most one fetch is in progress, and a caller that was blocked while
\* another caller's fetch stored a token returns that token without a fetch
\* when it checks the cache less than cacheTTL after the store, and fetches
\* again otherwise.
C7_SingleFetchWithinTTL ==
    [][/\ \A c \in Callers : C7_WithinTTL(c)
       /\ Cardinality(Fetching) <= 1
       /\ Cardinality(Fetching') <= 1
       /\ \A c \in Callers :
             (gpc[c] = "check" /\ gpc'[c] # "check" /\ waited[c])
                => IF now - storedAt < cacheTTL
                   THEN Returns(c) /\ ret'[c].token = tokenCache.Token /\ fetches' = fetches
                   ELSE gpc'[c] = "fetch" /\ fetches' = fetches + 1
      ]_vars

\* two callers, one fetch: the second was blocked during the fetch and got the stored token
C7_Witness ==
    \E c, d \in Callers :
        /\ c # d
        /\ fetches = 1
        /\ waited[d]
        /\ gpc[c] = "ret" /\ gpc[d] = "ret"
        /\ ret[c].err = "nil" /\ ret[d].err = "nil"
        /\ ret[d].token = ret[c].token
        /\ ret[d].token = tokenCache.Token
        /\ now > storedAt

\* C8: when the command fails or its output cannot be decoded, getToken()
\* returns that error and no token, and tokenCache is what it was when the
\* call took the mutex.
C8_FailedFetchKeepsCache ==
    [][\A c \in Callers :
          (gpc[c] = "fetch" /\ gpc'[c] # "fetch" /\ resp'[c].err # "nil")
             => /\ Returns(c)
                /\ ret'[c] = [token |-> "", err |-> resp'[c].err]
                /\ tokenCache' = tokenCache
                /\ tokenCache' = entry[c]
                /\ storedAt' = storedAt
      ]_vars

\* a fetch failed while an (expired) entry was cached, and the entry is still there
C8_Witness ==
    \E c \in Callers :
        /\ gpc[c] = "ret"
        /\ ret[c].err \in {"exec", "json"}
        /\ ~tokenCache.nil
        /\ entry[c] = tokenCache

\* C16: a fetch that succeeds stores the token of the response with the
\* expiry clock + cacheTTL, whatever expiry the response carries, and returns
\* that token; a call that checks the cache at the very instant of the stored
\* expiry does not use the entry but fetches again.
C16_OwnTTL ==
    [][\A c \in Callers :
          /\ (gpc[c] = "fetch" /\ gpc'[c] # "fetch" /\ resp'[c].err = "nil")
                => /\ tokenCache' = [nil |-> FALSE, Token |-> resp'[c].Token, Expiry |-> now + cacheTTL]
                   /\ ret'[c] = [token |-> resp'[c].Token, err |-> "nil"]
                   /\ resp'[c].Token \in Tokens
          /\ (gpc[c] = "check" /\ gpc'[c] # "check" /\ ~tokenCache.nil /\ now = tokenCache.Expiry)
                => /\ gpc'[c] = "fetch"
                   /\ fetches' = fetches + 1
                   /\ ret'[c] = ret[c]
      ]_vars

\* a call found the entry at the instant of its expiry, fetched, and the new
\* entry expires one TTL later
C16_Witness ==
    \E c \in Callers :
        /\ gpc[c] = "ret"
        /\ ret[c].err = "nil"
        /\ ~entry[c].nil
        /\ storedAt = entry[c].Expiry
        /\ tokenCache.Expiry = entry[c].Expiry + cacheTTL
        /\ fetches = 2

----------------------------------------------------------------------------
(* Properties of the whole run (Spec, FairSpec) *)

\* no countTCPConnections call was started
NoProbe ==
    /\ \A name \in PodNames : invoked[name] = <<>>
    /\ \A k \in 1..MaxPods : wpc[k] = "none"

\* every goroutine started so far got an error from its probe, or has not got its result yet
NoSuccess == \A k \in 1..MaxPods : outcome[k].state # "ok"

\* C9 as stated: when getPods() returns no pod, no probe is ever started and
\* main() ends having printed a total of 0, whatever getToken() returns.
C9_Original ==
    (Discovered /\ pods = <<>>) => /\ NoProbe
                                   /\ pc = "exit" => printed = <<0>>

\* C9, amended: when getPods() returns no pod, no probe is ever started and
\* the run is never stuck before main() returns; main() returns having printed
\* a total of 0 when getToken() succeeded, and without printing a total when
\* getToken() failed.
C9_ZeroTargets ==
    (Discovered /\ pods = <<>>)
        => /\ NoProbe
           /\ pc # "exit" => ENABLED Next
           /\ (pc = "exit" /\ ret[Main].err = "nil") => printed = <<0>>
           /\ (pc = "exit" /\ ret[Main].err # "nil") => printed = <<>>

\* no pod, token acquired, total 0 printed
C9_Witness ==
    /\ Discovered
    /\ pods = <<>>
    /\ Acquired
    /\ pc = "exit"
    /\ printed = <<0>>

\* C10: after a successful discovery and acquisition, as long as no probe has
\* succeeded the run is never stuck before main() returns, and main() returns
\* only after printing the total, which is 0.
C10_AllProbesFail ==
    (Acquired /\ NoSuccess)
        => /\ pc # "exit" => ENABLED Next
           /\ pc = "exit" => printed = <<0>>
           /\ Reported => pc = "exit"

\* two pods or more, every probe failed, total 0 printed
C10_Witness ==
    /\ Acquired
    /\ pc = "exit"
    /\ Len(pods) >= 2
    /\ \A k \in 1..Len(pods) : outcome[k].state = "failed"
    /\ printed = <<0>>


\* some goroutine was started or some countTCPConnections call was made
SomeProbe ==
    \/ \E name \in PodNames : invoked[name] # <<>>
    \/ \E k \in 1..MaxPods : wpc[k] # "none"

\* C11: a probe is started only after getPods() and getToken() both returned
\* without error; when either fails main() returns with no probe started and
\* no total printed.
C11_FatalErrorsShortCircuit ==
    /\ SomeProbe => /\ pc \notin {"getPods", "getToken"}
                    /\ gpc[Main] = "ret"
                    /\ ret[Main].err = "nil"
    /\ pc \in {"loop", "send", "wait"} => (gpc[Main] = "ret" /\ ret[Main].err = "nil")
    /\ (pc = "exit" /\ (gpc[Main] # "ret" \/ ret[Main].err # "nil"))
          => /\ ~SomeProbe
             /\ printed = <<>>
             /\ workers = 0 /\ wg = 0

\* three pods discovered, getToken() failed: main() returned with nothing started or printed
C11_Witness ==
    /\ pc = "exit"
    /\ Len(pods) = 3
    /\ ret[Main].err \in {"exec", "json"}
    /\ ~SomeProbe
    /\ printed = <<>>

\* goroutine k gets the result of its probe in this step, and it is an error
ProbeFails(k) == outcome[k].state = "none" /\ outcome'[k].state = "failed"

\* C12: the step in which a probe fails changes neither the total nor main()
\* nor any other goroutine, the goroutine of a failed probe never changes the
\* total afterwards, and after a failure every pod is still probed and the
\* count of every probe that succeeded is in the printed total.
C12_FailureIsIsolated ==
    /\ [][\A k \in 1..MaxPods :
            /\ ProbeFails(k)
                  => /\ totalTCPConnections' = totalTCPConnections
                     /\ pc' = pc /\ i' = i /\ wg' = wg /\ workers' = workers /\ mu' = mu
                     /\ \A j \in 1..MaxPods \ {k} :
                           wpc'[j] = wpc[j] /\ tcpCount'[j] = tcpCount[j] /\ outcome'[j] = outcome[j]
            /\ (outcome[k].state = "failed" /\ wpc'[k] # wpc[k])
                  => totalTCPConnections' = totalTCPConnections
         ]_vars
    /\ []( (pc = "exit" /\ \E k \in 1..MaxPods : outcome[k].state = "failed")
              => /\ \A j \in 1..Len(pods) : wpc[j] = "exited" /\ outcome[j].state # "none"
                 /\ printed = <<SumOk(Len(pods))>> )

\* one probe of three failed; the other two succeeded and were counted
C12_Witness ==
    /\ pc = "exit"
    /\ Len(pods) = 3
    /\ outcome[1].state = "failed"
    /\ outcome[2] = [state |-> "ok", count |-> 5]
    /\ outcome[3] = [state |-> "ok", count |-> 7]
    /\ printed = <<12>>


\* C14 as stated: the running total starts at 0, no step decreases it, and
\* it is never negative.
C14_Original ==
    /\ totalTCPConnections = 0
    /\ [][totalTCPConnections' >= totalTCPConnections]_vars
    /\ [](totalTCPConnections >= 0)

\* goroutines between the read and the write of line 186
Updating == {k \in 1..MaxPods : wpc[k] \in {"load", "store"}}

\* sum of the counts of the goroutines that have finished line 186
RECURSIVE SumAdded(_)
SumAdded(n) ==
    IF n = 0 THEN 0
    ELSE SumAdded(n - 1)
         + (IF outcome[n].state = "ok" /\ wpc[n] \in {"release", "done", "exited"}
            THEN outcome[n].count ELSE 0)

\* C15: at most one goroutine is between the read and the write of the total,
\* and it holds mu; the total always is the sum of the counts of the goroutines
\* that finished their update (none is lost); and main() reads the total when
\* no goroutine is updating it or still has an update to make.
C15_ExclusiveUpdates ==
    /\ [](  /\ Cardinality(Updating) <= 1
            /\ \A k \in Updating : mu = k
            /\ mu # 0 => mu \in Updating
            /\ totalTCPConnections = SumAdded(MaxPods)  )
    /\ [][ printed' # printed
              => /\ Updating = {}
                 /\ \A k \in 1..MaxPods : wpc[k] \notin {"start", "exec", "lock"}
                 /\ printed' = <<SumOk(Len(pods))>>
         ]_vars

\* two goroutines have their counts ready; one is updating the total, the other waits for mu
C15_Witness ==
    \E j, k \in 1..MaxPods :
        /\ wpc[j] = "store"
        /\ wpc[k] = "lock"
        /\ mu = j
        /\ outcome[j].state = "ok"
        /\ outcome[k].state = "ok"

\* C17: main() calls getToken() once, when getPods() has returned and before
\* any goroutine exists; no other caller ever enters getToken(), at most one
\* command is run to fetch a token, and every countTCPConnections call gets
\* the token that call returned.
C17_OneTokenPerRun ==
    /\ [](  /\ fetches <= 1
            /\ \A c \in Callers \ {Main} : gpc[c] = "idle"
            /\ \A name \in PodNames : \A n \in 1..Len(invoked[name]) :
                  /\ invoked[name][n] = ret[Main].token
                  /\ invoked[name][n] \in Tokens
            /\ (\E k \in 1..MaxPods : wpc[k] # "none")
                  => (gpc[Main] = "ret" /\ ret[Main].err = "nil" /\ fetches = 1)  )
    /\ [][ (gpc'[Main] # gpc[Main] /\ gpc'[Main] = "lock")
              => /\ gpc[Main] = "idle"
                 /\ pc = "getPods"
                 /\ \A k \in 1..MaxPods : wpc[k] = "none"
         ]_vars
    /\ [][ gpc[Main] = "ret" => (gpc'[Main] = "ret" /\ ret'[Main] = ret[Main]) ]_vars

\* three probes were made, all with the one token fetched
C17_Witness ==
    /\ pc = "exit"
    /\ fetches = 1
    /\ Len(pods) = 3
    /\ \A n \in 1..3 : invoked[pods[n]] = <<"def">>
    /\ tokenCache.Token = "def"

----------------------------------------------------------------------------
(* Termination of the run (FairSpec) *)

\* C19: for every number of pods and every channel capacity, once getPods()
\* and getToken() have returned without error main() eventually prints the
\* total and returns, and until it has returned some step of main() or of a
\* goroutine can always be taken: neither the channel, nor mu, nor wg.Wait()
\* blocks for ever.
C19_RunTerminates ==
    /\ Acquired ~> (Reported /\ pc = "exit")
    /\ []((Acquired /\ pc # "exit") => (ENABLED MainStep \/ \E k \in 1..MaxPods : ENABLED WorkerStep(k)))
    /\ []((pc = "exit" /\ Acquired) => (wg = 0 /\ workers = 0 /\ mu = 0))

\* capacity 1 and three pods: main() blocked on the channel, probes succeeded
\* and failed, and the total was printed
C19_Witness ==
    /\ Reported
    /\ pc = "exit"
    /\ maxConcurrentConnections = 1
    /\ Len(pods) = 3
    /\ \E k \in 1..3 : outcome[k].state = "ok"
    /\ \E k \in 1..3 : outcome[k].state = "failed"

----------------------------------------------------------------------------
(* countTCPConnections() on its own (ProbeSpec): every stdout up to MaxLen *)

\* characters the command can print: digits, signs, white space, anything else
Alphabet == {"0", "3", "-", "+", " ", "\n", "a"}
Texts == UNION {[1..m -> Alphabet] : m \in 0..MaxLen}
CommandResults ==
    {[err |-> TRUE, out |-> <<>>]} \cup {[err |-> FALSE, out |-> o] : o \in Texts}

\* the command has returned cmdOut; nothing else is running
ProbeInit ==
    /\ pc = "off"
    /\ maxConcurrentConnections = 1
    /\ PoolInit0
    /\ CacheInit0
    /\ cmdOut \in CommandResults
    /\ probeRet = NoProbeReturn
    /\ httpResp = NoAnswer
    /\ pushRet = NoPushReturn

\* lines 111-123: countTCPConnections returns
probeCall ==
    /\ ~probeRet.done
    /\ LET r == countTCPConnections(cmdOut)
       IN  probeRet' = [done |-> TRUE, count |-> r.count, err |-> r.err]
    /\ UNCHANGED <<cmdOut, httpResp, pushRet>>
    /\ UNCHANGED mainVars
    /\ UNCHANGED cacheVars

ProbeNext == probeCall

ProbeSpec == ProbeInit /\ [][ProbeNext]_vars

\* s is white space, an optional sign, one or more digits, white space
IsDecimalText(s) ==
    \E lo, hi \in 1..Len(s) :
        /\ lo <= hi
        /\ \A n \in 1..(lo - 1) : s[n] \in {" ", "\n", "\t", "\r"}
        /\ \A n \in (hi + 1)..Len(s) : s[n] \in {" ", "\n", "\t", "\r"}
        /\ \/ \A n \in lo..hi : s[n] \in {"0", "3"}
           \/ /\ lo < hi
              /\ s[lo] \in {"+", "-"}
              /\ \A n \in (lo + 1)..hi : s[n] \in {"0", "3"}

\* s contains a minus sign and a digit other than 0
IsNegativeText(s) ==
    /\ \E n \in 1..Len(s) : s[n] = "-"
    /\ \E n \in 1..Len(s) : s[n] = "3"

\* C13 as stated: countTCPConnections returns a count without error exactly
\* when the command succeeded and its trimmed output is one decimal integer
\* that is not negative, and the count it returns is never negative.
C13_Original ==
    probeRet.done
        => /\ probeRet.err
                <=> ~(/\ ~cmdOut.err
                      /\ IsDecimalText(cmdOut.out)
                      /\ ~IsNegativeText(cmdOut.out))
           /\ probeRet.count >= 0

----------------------------------------------------------------------------
(* sendToPushGateway() on its own (PublishSpec): every answer of the sink *)

\* line 137: http.StatusOK
StatusOK == 200

\* fmt.Sprintf("%d", n)
RECURSIVE FormatNat(_)
FormatNat(n) ==
    IF n < 10 THEN <<Digits[n + 1]>>
    ELSE FormatNat(n \div 10) \o <<Digits[(n % 10) + 1]>>
FormatInt(n) == IF n < 0 THEN <<"-">> \o FormatNat(0 - n) ELSE FormatNat(n)

\* line 128: the sample sent to the sink
MetricLine(n) ==
    <<"c", "l", "i", "e", "n", "t", "_", "t", "c", "p", "_", "n", "e", "w", " ">>
        \o FormatInt(n) \o <<"\n">>

\* totals main() can hand over, statuses and bodies the sink can answer with
Totals == {0, 7, 120}
Statuses == {199, 200, 201, 202, 204, 299, 300, 400, 404, 500}
Bodies == {"", "conflict"}
Answers ==
    {[err |-> TRUE, status |-> 0, body |-> ""]}
        \cup {[err |-> FALSE, status |-> st, body |-> b] : st \in Statuses, b \in Bodies}

\* main() has its total and the sink's answer is httpResp; nothing else runs
PublishInit ==
    /\ pc = "off"
    /\ maxConcurrentConnections = 1
    /\ pods = <<>>
    /\ i = 1
    /\ token = ""
    /\ totalTCPConnections \in Totals
    /\ mu = 0
    /\ wg = 0
    /\ workers = 0
    /\ wpc = [k \in 1..MaxPods |-> "none"]
    /\ p = [k \in 1..MaxPods |-> ""]
    /\ tcpCount = [k \in 1..MaxPods |-> 0]
    /\ acc = [k \in 1..MaxPods |-> 0]
    /\ invoked = [n \in PodNames |-> <<>>]
    /\ outcome = [k \in 1..MaxPods |-> NoOutcome]
    /\ printed = <<>>
    /\ CacheInit0
    /\ cmdOut = NoCommand
    /\ probeRet = NoProbeReturn
    /\ httpResp \in Answers
    /\ pushRet = NoPushReturn

\* lines 127-144: sendToPushGateway(totalTCPConnections) returns
sendToPushGateway ==
    /\ ~pushRet.done
    /\ LET data == MetricLine(totalTCPConnections)
       IN  pushRet' =
               IF httpResp.err
               THEN [done |-> TRUE, data |-> data, err |-> "post", msg |-> ""]
               ELSE IF httpResp.status # StatusOK
               THEN [done |-> TRUE, data |-> data, err |-> "status", msg |-> httpResp.body]
               ELSE [done |-> TRUE, data |-> data, err |-> "nil", msg |-> ""]
    /\ UNCHANGED <<cmdOut, probeRet, httpResp>>
    /\ UNCHANGED mainVars
    /\ UNCHANGED cacheVars

PublishNext == sendToPushGateway

PublishSpec == PublishInit /\ [][PublishNext]_vars

\* C18 as stated: sendToPushGateway returns nil when the sink answers with a
\* status from 200 to 299, returns an error carrying the response body when
\* the status is outside that range, and never changes the total.
C18_Original ==
    /\ []((pushRet.done /\ ~httpResp.err)
            => IF httpResp.status >= 200 /\ httpResp.status <= 299
               THEN pushRet.err = "nil"
               ELSE pushRet.err = "status" /\ pushRet.msg = httpResp.body)
    /\ [][totalTCPConnections' = totalTCPConnections]_vars

====
